---- MODULE Spec2Model ----
(***************************************************************************)
(* A model of the 2D physics engine of src/physics2.py: the Object and     *)
(* Space classes, with add_object, check_collisions, resolve_collisions,   *)
(* move_player, step and reset.                                            *)
(*                                                                         *)
(* Python's object model is kept where the code depends on it:             *)
(*   - Object.speed is a class attribute holding one list.  An instance    *)
(*     reads and mutates that list (speed[i] = v, speed[i] += v) until an  *)
(*     assignment "item.speed = [...]" gives it a list of its own.         *)
(*   - Space.targets, players, boxes and platforms are class attributes    *)
(*     holding one list each.  append mutates the class's list until       *)
(*     reset() assigns the instance lists of its own.                      *)
(*   - "item in self.players" compares rectangles by value (Rect.__eq__),  *)
(*     "alpha_box is item1" compares identities.                           *)
(* Velocities are floats in the code.  Here a velocity is a whole number   *)
(* of units of 1 / VelUnit: with the worlds, frame rates and keys drawn,   *)
(* gravity / fps and the jump speed are whole numbers of such units, and   *)
(* round(x + v * (1 / fps)) is the rounding of the rational x + v / fps    *)
(* (the float error of v * (1 / fps) is far below the distance of v / fps  *)
(* to the nearest tie, and at the ties reached the float is exact).        *)
(***************************************************************************)
EXTENDS Integers, Sequences, FiniteSets, TLC

\* ------------------------------------------------------------- bounds
MaxCalls == 4     \* calls made on the spaces once the level is built

\* ------------------------------------------------------------- program constants
box_to_target      == 0
object_to_platform == 1
player_to_box      == 2
box_to_box         == 3
player_to_player   == 4
object_to_border   == 5
tolerance          == 31
side_step          == 30
jump_height_units  == 7

\* Object.speed holds floats: a velocity v is held as the integer v * VelUnit
VelUnit == 60

\* ------------------------------------------------------------- inputs
\* Space(w, h, gravity, upscale): the constructor arguments drawn.
\*   GridArgs:     a 5x4 world at the default upscale of 100
\*   ScenarioArgs: the 20x10 world of gravity 98 at upscale 100
\*   FineArgs:     a 500x400 world at upscale 1, where an external unit is
\*                 an internal unit
GridArgs     == [w |-> 5, h |-> 4, gravity |-> 14, upscale |-> 100]
ScenarioArgs == [w |-> 20, h |-> 10, gravity |-> 98, upscale |-> 100]
FineArgs     == [w |-> 500, h |-> 400, gravity |-> 1400, upscale |-> 1]

SpaceArgs == {GridArgs, ScenarioArgs, FineArgs}

SpaceIds == {1, 2}

\* step(fps): a valid frame rate, zero and a negative one.
FpsValues == {-1, 0, 10}

\* The frame rates drawn for a space: the 20x10 world is stepped at 60.
FpsOf(sp) ==
    IF sp.gravity = ScenarioArgs.gravity * ScenarioArgs.upscale
    THEN {60} ELSE FpsValues

Keys == {"up", "down", "left", "right"}

\* The keys drawn for a space.  In the 20x10 world the jump speed is the
\* square root of 13720000, which is no whole number of velocity units: up
\* and down are not drawn there.
KeysOf(sp) ==
    IF sp.gravity = ScenarioArgs.gravity * ScenarioArgs.upscale
    THEN {"left", "right"} ELSE Keys

\* add_object(x, y, w, h, type), in external units
Arg(x, y, w, h, type) == [x |-> x, y |-> y, w |-> w, h |-> h, type |-> type]

\* The levels a behaviour starts from: the space and the add_object calls
\* that build each.
\*   1: a player, two boxes and a wall in a row on the bottom border
\*   2: a player and two boxes in a row, the farther box registered first
\*      and standing against the right border, over two targets
\*   3: a floor platform with a player and a box resting on it
\*   4: a floor platform with a player resting on it, no box
\*   5: nothing yet
\*   6: a player and a box side by side in mid-air
\*   7: the 20x10 world with a floor platform and a 1x2 player above it
\*   8: a floor platform with a player resting on it, and a box of the
\*      player's size 10 units lower, 10 units into the platform
\*   9: a player and a box, both 20 high, the box 10 units lower
\*  10: two players in one place and three boxes in another, in mid-air
\*  11: a ledge 100 wide with a player standing on its last 20 units, and a
\*      box in the air far from both
Level(space, adds) == [space |-> space, adds |-> adds]

Levels ==
    { Level(GridArgs,
            << Arg(1, 3, 1, 1, "player"), Arg(2, 3, 1, 1, "box"),
               Arg(3, 3, 1, 1, "box"), Arg(4, 3, 1, 1, "platform") >>),
      Level(GridArgs,
            << Arg(2, 3, 1, 1, "player"), Arg(4, 3, 1, 1, "box"),
               Arg(3, 3, 1, 1, "box"), Arg(4, 3, 1, 1, "target"),
               Arg(4, 3, 1, 1, "target") >>),
      Level(GridArgs,
            << Arg(0, 3, 5, 1, "platform"), Arg(1, 2, 1, 1, "player"),
               Arg(3, 2, 1, 1, "box") >>),
      Level(GridArgs,
            << Arg(0, 3, 5, 1, "platform"), Arg(1, 2, 1, 1, "player") >>),
      Level(GridArgs, << >>),
      Level(GridArgs,
            << Arg(1, 1, 1, 1, "player"), Arg(2, 1, 1, 1, "box") >>),
      Level(ScenarioArgs,
            << Arg(0, 9, 20, 1, "platform"), Arg(5, 5, 1, 2, "player") >>),
      Level(FineArgs,
            << Arg(0, 300, 500, 100, "platform"), Arg(100, 200, 100, 100, "player"),
               Arg(100, 210, 100, 100, "box") >>),
      Level(FineArgs,
            << Arg(300, 100, 100, 20, "player"), Arg(300, 110, 100, 20, "box") >>),
      Level(GridArgs,
            << Arg(1, 2, 1, 1, "player"), Arg(1, 2, 1, 1, "player"),
               Arg(3, 2, 1, 1, "box"), Arg(3, 2, 1, 1, "box"),
               Arg(3, 2, 1, 1, "box") >>),
      Level(FineArgs,
            << Arg(0, 300, 100, 100, "platform"), Arg(80, 200, 100, 100, "player"),
               Arg(300, 0, 100, 100, "box") >>) }

\* the add_object calls drawn once the level is built
AddArgs ==
    { Arg(1, 2, 1, 1, "player"),
      Arg(0, 2, 3, 1, "thinkingbox"),
      Arg(1, 1, 1, 1, "enemy") }

KnownTypes == {"target", "player", "box", "platform", "thinkingbox"}

\* ------------------------------------------------------------- state
VARIABLES
    objects,       \* the Object instances constructed so far, by identity
    Object_speed,  \* the class attribute Object.speed (one shared list)
    Space_lists,   \* the class attributes Space.targets/players/boxes/platforms
    spaces,        \* the Space instances
    last,          \* the last call: its arguments, error and return value
    pre,           \* the program state when the last call began
    mid,           \* the program state after the settle loop of the last step
    calls          \* calls made since the level was built

vars == <<objects, Object_speed, Space_lists, spaces, last, pre, mid, calls>>

\* The program state as one value, threaded through the handlers.
Heap ==
    [objects |-> objects, Object_speed |-> Object_speed,
     Space_lists |-> Space_lists, spaces |-> spaces]

None == 0

\* ------------------------------------------------------------- helpers
Abs(n) == IF n < 0 THEN -n ELSE n

\* Python's round() of the rational n/d (d # 0): to nearest, ties to even.
Round(n, d) ==
    LET dd == IF d < 0 THEN -d ELSE d
        nn == IF d < 0 THEN -n ELSE n
        q  == nn \div dd
        r  == nn - q * dd
    IN  IF 2 * r < dd THEN q
        ELSE IF 2 * r > dd THEN q + 1
        ELSE IF q % 2 = 0 THEN q ELSE q + 1

\* n / d for a d that divides n
ExactDiv(n, d) ==
    IF d < 0 THEN -(n \div (-d)) ELSE n \div d

\* s[1] F s[2] F ... : the concatenation of F over a sequence
FlatMap(s, F(_)) ==
    LET f[i \in 0..Len(s)] == IF i = 0 THEN <<>> ELSE f[i - 1] \o F(s[i])
    IN  f[Len(s)]

\* G applied to the value of v, which is computed once
With(v, G(_)) == CHOOSE y \in { G(x) : x \in {v} } : TRUE

\* the left fold of G over a sequence, from the value x
Fold(s, x, G(_, _)) ==
    LET f[i \in 0..Len(s)] ==
            IF i = 0 THEN x
            ELSE LET Step_(acc) == G(acc, s[i]) IN With(f[i - 1], Step_)
    IN  f[Len(s)]

\* the elements of a sequence
Range(s) == { s[i] : i \in 1..Len(s) }

\* pygame.Rect edges
rleft(r)   == r.x
rright(r)  == r.x + r.w
rtop(r)    == r.y
rbottom(r) == r.y + r.h

\* pygame.Rect.colliderect: an overlap of positive area
colliderect(a, b) ==
    IF a.w = 0 \/ a.h = 0 \/ b.w = 0 \/ b.h = 0 THEN FALSE
    ELSE /\ a.x < b.x + b.w
         /\ a.y < b.y + b.h
         /\ a.x + a.w > b.x
         /\ a.y + a.h > b.y

\* pygame.Rect.__eq__: equal coordinates and sizes
RectEq(a, b) == a.x = b.x /\ a.y = b.y /\ a.w = b.w /\ a.h = b.h

\* pygame.Rect.__bool__: a rectangle of non-zero size is true
RectBool(a) == a.w # 0 /\ a.h # 0

\* ------------------------------------------------------------- Object
\* Object(x, y, w, h, upscale): no instance attribute speed is set
NewObject(x, y, w, h, upscale) ==
    [x |-> x, y |-> y, w |-> w, h |-> h, upscale |-> upscale,
     own |-> FALSE, speed |-> <<0, 0>>]

\* item.speed: the instance's list when it has one, else the class's
speed(hp, o) ==
    IF hp.objects[o].own THEN hp.objects[o].speed ELSE hp.Object_speed

\* item.speed[i] = v: mutates whichever list item.speed is
SetSpeedItem(hp, o, i, v) ==
    IF hp.objects[o].own
    THEN [hp EXCEPT !.objects[o].speed[i] = v]
    ELSE [hp EXCEPT !.Object_speed[i] = v]

\* item.speed = [vx, vy]: binds a new list to the instance
SetSpeed(hp, o, s) ==
    [hp EXCEPT !.objects[o].own = TRUE, !.objects[o].speed = s]

SetLeft(hp, o, v)   == [hp EXCEPT !.objects[o].x = v]
SetRight(hp, o, v)  == [hp EXCEPT !.objects[o].x = v - hp.objects[o].w]
SetTop(hp, o, v)    == [hp EXCEPT !.objects[o].y = v]
SetBottom(hp, o, v) == [hp EXCEPT !.objects[o].y = v - hp.objects[o].h]

\* ------------------------------------------------------------- Space
EmptyLists == [targets |-> <<>>, players |-> <<>>, boxes |-> <<>>, platforms |-> <<>>]

\* A Space instance; own says whether reset() has bound lists to the instance.
NewSpace(a) ==
    [exists |-> TRUE,
     w |-> a.w * a.upscale, h |-> a.h * a.upscale,
     gravity |-> a.gravity * a.upscale, upscale |-> a.upscale,
     own |-> FALSE, lists |-> EmptyLists,
     thinkingbox |-> None, targets_engaged |-> 0,
     player_on_ground |-> FALSE, player_in_thinkingbox |-> FALSE]

NoSpace ==
    [exists |-> FALSE, w |-> 0, h |-> 0, gravity |-> 0, upscale |-> 0,
     own |-> FALSE, lists |-> EmptyLists,
     thinkingbox |-> None, targets_engaged |-> 0,
     player_on_ground |-> FALSE, player_in_thinkingbox |-> FALSE]

\* self.targets, self.players, self.boxes, self.platforms
ListsOf(hp, s) ==
    IF hp.spaces[s].own THEN hp.spaces[s].lists ELSE hp.Space_lists

\* self.<name>.append(item)
Append_(hp, s, name, item) ==
    IF hp.spaces[s].own
    THEN [hp EXCEPT !.spaces[s].lists[name] = Append(@, item)]
    ELSE [hp EXCEPT !.Space_lists[name] = Append(@, item)]

ListName(type) ==
    CASE type = "target"   -> "targets"
      [] type = "player"   -> "players"
      [] type = "box"      -> "boxes"
      [] type = "platform" -> "platforms"

\* Space.add_object: the new heap and the returned item
add_object(hp, s, a) ==
    LET u    == hp.spaces[s].upscale
        item == Len(hp.objects) + 1
        Registered(h1) ==
            IF a.type \in {"target", "player", "box", "platform"}
            THEN Append_(h1, s, ListName(a.type), item)
            ELSE IF a.type = "thinkingbox"
            THEN [h1 EXCEPT !.spaces[s].thinkingbox = item]
            ELSE h1
    IN  [heap |-> With([hp EXCEPT !.objects =
                          Append(@, NewObject(a.x * u, a.y * u, a.w * u, a.h * u, u))],
                       Registered),
         err |-> "none", ret |-> item]

\* a mutant of reset: the flags and the counter are reset, the collections
\* and the trigger zone are left as they are
reset_flags_only(hp, s) ==
    [hp EXCEPT !.spaces[s].targets_engaged = 0,
               !.spaces[s].player_on_ground = FALSE,
               !.spaces[s].player_in_thinkingbox = FALSE]

\* Space.reset
reset(hp, s) ==
    [hp EXCEPT !.spaces[s].own = TRUE,
               !.spaces[s].lists = EmptyLists,
               !.spaces[s].targets_engaged = 0,
               !.spaces[s].thinkingbox = None,
               !.spaces[s].player_on_ground = FALSE,
               !.spaces[s].player_in_thinkingbox = FALSE]

\* ------------------------------------------------------------- check_collisions
Event(item1, item2, ct) == [a |-> item1, b |-> item2, t |-> ct]

\* check_list: item1 against rect_list, in index order (Rect.collidelistall)
check_list(hp, item1, rect_list, ct) ==
    LET hits == SelectSeq(rect_list,
                    LAMBDA o : colliderect(hp.objects[item1], hp.objects[o]))
    IN  [i \in 1..Len(hits) |-> Event(item1, hits[i], ct)]

\* check_borders: one event when any edge is outside the space
check_borders(hp, s, item) ==
    LET r == hp.objects[item]
    IN  IF \/ rleft(r) < 0
           \/ rright(r) > hp.spaces[s].w
           \/ rtop(r) < 0
           \/ rbottom(r) > hp.spaces[s].h
        THEN << Event(item, None, object_to_border) >>
        ELSE <<>>

\* a mutant of check_sametype: every pair (i, j) with i # j
check_sametype_both_orders(hp, itemlist, ct) ==
    LET n == Len(itemlist)
        PairsOf(i) ==
            LET js == SelectSeq([k \in 1..n |-> k],
                          LAMBDA j : j # i /\ colliderect(hp.objects[itemlist[i]],
                                                          hp.objects[itemlist[j]]))
            IN  [m \in 1..Len(js) |-> Event(itemlist[i], itemlist[js[m]], ct)]
    IN  FlatMap([i \in 1..n |-> i], PairsOf)

\* check_sametype: every pair (i, j) with i < j, by i and then by j
check_sametype(hp, itemlist, ct) ==
    LET n == Len(itemlist)
        PairsOf(i) ==
            LET js == SelectSeq([k \in 1..(n - i) |-> i + k],
                          LAMBDA j : colliderect(hp.objects[itemlist[i]],
                                                 hp.objects[itemlist[j]]))
            IN  [m \in 1..Len(js) |-> Event(itemlist[i], itemlist[js[m]], ct)]
    IN  FlatMap([i \in 1..n |-> i], PairsOf)

\* The call check_playerinthinking(player) passes one argument to a function
\* that takes none: it raises TypeError whenever it is reached.
ThinkingCallRaises(hp, s) ==
    /\ Len(ListsOf(hp, s).players) > 0
    /\ hp.spaces[s].thinkingbox # None
    /\ RectBool(hp.objects[hp.spaces[s].thinkingbox])

\* Space.check_collisions: the heap it leaves (it assigns nothing before it
\* returns or raises), and the event list or the error raised
check_collisions(hp, s) ==
    LET L == ListsOf(hp, s)
        OfBox(box) ==
            check_list(hp, box, L.targets, box_to_target)
            \o check_list(hp, box, L.platforms, object_to_platform)
            \o check_borders(hp, s, box)
        OfPlayer(player) ==
            check_list(hp, player, L.platforms, object_to_platform)
            \o check_list(hp, player, L.boxes, player_to_box)
            \o check_borders(hp, s, player)
    IN  IF ThinkingCallRaises(hp, s)
        THEN [heap |-> hp, err |-> "TypeError", events |-> <<>>]
        ELSE [heap |-> hp, err |-> "none",
              events |-> FlatMap(L.boxes, OfBox)
                         \o check_sametype(hp, L.boxes, box_to_box)
                         \o FlatMap(L.players, OfPlayer)
                         \o check_sametype(hp, L.players, player_to_player)]

\* ------------------------------------------------------------- resolve_collisions
\* a mutant of whatside: the side of the smallest distance within the
\* tolerance (the earlier side of top, bottom, right, left on equal distances)
whatside_nearest(ra, rb) ==
    LET d == << Abs(rtop(ra) - rbottom(rb)), Abs(rbottom(ra) - rtop(rb)),
                Abs(rright(ra) - rleft(rb)), Abs(rleft(ra) - rright(rb)) >>
        n == << "top", "bottom", "right", "left" >>
        best == { i \in 1..4 : d[i] < tolerance /\ \A j \in 1..4 : d[i] <= d[j] }
    IN  IF best = {} THEN "none"
        ELSE n[CHOOSE i \in best : \A j \in best : i <= j]

\* whatside: the first of top, bottom, right, left within the tolerance
whatside(ra, rb) ==
    IF Abs(rtop(ra) - rbottom(rb)) < tolerance THEN "top"
    ELSE IF Abs(rbottom(ra) - rtop(rb)) < tolerance THEN "bottom"
    ELSE IF Abs(rright(ra) - rleft(rb)) < tolerance THEN "right"
    ELSE IF Abs(rleft(ra) - rright(rb)) < tolerance THEN "left"
    ELSE "none"

Side(hp, ev) == whatside(hp.objects[ev.a], hp.objects[ev.b])

\* "item1 in self.players": list membership by Rect equality
InPlayers(hp, s, item) ==
    \E p \in Range(ListsOf(hp, s).players) : RectEq(hp.objects[p], hp.objects[item])

resolve_box_to_target(hp, s, ev) ==
    [hp EXCEPT !.spaces[s].targets_engaged = @ + 1]

resolve_object_to_platform(hp, s, ev) ==
    LET item1 == ev.a
        r2    == hp.objects[ev.b]
        side  == Side(hp, ev)
        v     == speed(hp, item1)
    IN  CASE side = "left"  -> SetLeft(SetSpeedItem(hp, item1, 1, 0), item1, rright(r2))
          [] side = "right" -> SetRight(SetSpeedItem(hp, item1, 1, 0), item1, rleft(r2))
          [] side = "top"   -> SetTop(SetSpeed(hp, item1, <<v[1], -v[2]>>), item1, rbottom(r2))
          [] side = "bottom" ->
                LET h1 == SetBottom(SetSpeed(hp, item1, <<0, 0>>), item1, rtop(r2))
                IN  IF InPlayers(h1, s, item1)
                    THEN [h1 EXCEPT !.spaces[s].player_on_ground = TRUE]
                    ELSE h1
          [] OTHER -> hp

\* a mutant of the player-to-box rule: a sideways contact stops the box on
\* both axes
resolve_player_to_box_stops_box(hp, s, ev) ==
    LET item1 == ev.a
        item2 == ev.b
        r1    == hp.objects[item1]
        r2    == hp.objects[item2]
        side  == Side(hp, ev)
    IN  CASE side = "top" -> SetBottom(SetSpeed(hp, item2, <<0, 0>>), item2, rtop(r1))
          [] side = "bottom" ->
                [SetBottom(SetSpeed(hp, item1, <<0, 0>>), item1, rtop(r2))
                    EXCEPT !.spaces[s].player_on_ground = TRUE]
          [] side = "left" ->
                SetRight(SetSpeed(hp, item2, <<0, 0>>), item2, rleft(r1))
          [] side = "right" ->
                SetLeft(SetSpeed(hp, item2, <<0, 0>>), item2, rright(r1))
          [] OTHER -> hp

resolve_player_to_box(hp, s, ev) ==
    LET item1 == ev.a
        item2 == ev.b
        r1    == hp.objects[item1]
        r2    == hp.objects[item2]
        side  == Side(hp, ev)
    IN  CASE side = "top" -> SetBottom(SetSpeed(hp, item2, <<0, 0>>), item2, rtop(r1))
          [] side = "bottom" ->
                [SetBottom(SetSpeed(hp, item1, <<0, 0>>), item1, rtop(r2))
                    EXCEPT !.spaces[s].player_on_ground = TRUE]
          [] side = "left" ->
                SetRight(SetSpeed(hp, item2, <<0, speed(hp, item2)[2]>>), item2, rleft(r1))
          [] side = "right" ->
                SetLeft(SetSpeed(hp, item2, <<0, speed(hp, item2)[2]>>), item2, rright(r1))
          [] OTHER -> hp

\* a mutant of alpha_box: the box farther from players[0] is the dominant one
alpha_box_farther(item1_dist, item2_dist, item1, item2) ==
    IF item1_dist > item2_dist THEN item1 ELSE item2

\* the dominant box: item1, unless item1 is farther from players[0] than item2
alpha_box(item1_dist, item2_dist, item1, item2) ==
    IF item1_dist > item2_dist THEN item2 ELSE item1

resolve_box_to_box(hp, s, ev) ==
    LET item1 == ev.a
        item2 == ev.b
        r1    == hp.objects[item1]
        r2    == hp.objects[item2]
        p0    == hp.objects[ListsOf(hp, s).players[1]]
        alpha == alpha_box(Abs(p0.x - r1.x), Abs(p0.x - r2.x), item1, item2)
        side  == Side(hp, ev)
        h0    == SetSpeedItem(SetSpeedItem(hp, item1, 1, 0), item2, 1, 0)
    IN  CASE side = "top" -> SetBottom(SetSpeed(hp, item2, <<0, 0>>), item2, rtop(r1))
          [] side = "bottom" -> SetBottom(SetSpeed(hp, item1, <<0, 0>>), item1, rtop(r2))
          [] side = "left" ->
                IF alpha = item1 THEN SetRight(h0, item2, rleft(r1))
                                 ELSE SetLeft(h0, item1, rright(r2))
          [] side = "right" ->
                IF alpha = item1 THEN SetLeft(h0, item2, rright(r1))
                                 ELSE SetRight(h0, item1, rleft(r2))
          [] OTHER -> hp

resolve_object_to_border(hp, s, ev) ==
    LET item1 == ev.a
        h1 == IF rleft(hp.objects[item1]) < 0
              THEN SetLeft(SetSpeedItem(hp, item1, 1, 0), item1, 0)
              ELSE hp
        h2 == IF rright(h1.objects[item1]) > h1.spaces[s].w
              THEN SetRight(SetSpeedItem(h1, item1, 1, 0), item1, h1.spaces[s].w)
              ELSE h1
        h3 == IF rtop(h2.objects[item1]) < 0
              THEN SetTop(SetSpeedItem(h2, item1, 2, -speed(h2, item1)[2]), item1, 0)
              ELSE h2
        h4 == IF rbottom(h3.objects[item1]) > h3.spaces[s].h
              THEN SetBottom(SetSpeedItem(h3, item1, 2, 0), item1, h3.spaces[s].h)
              ELSE h3
    IN  h4

\* what an event's resolution saw of an item: rectangle and effective speed
View(hp, o) ==
    IF o = None
    THEN [x |-> 0, y |-> 0, w |-> 0, h |-> 0, vx |-> 0, vy |-> 0]
    ELSE [x |-> hp.objects[o].x, y |-> hp.objects[o].y,
          w |-> hp.objects[o].w, h |-> hp.objects[o].h,
          vx |-> speed(hp, o)[1], vy |-> speed(hp, o)[2]]

\* One iteration of the loop of resolve_collisions: the heap after the event,
\* or the error it raised (players[0] of an empty list is an IndexError).
resolve_one(hp, s, ev) ==
    IF ev.t = box_to_box /\ Len(ListsOf(hp, s).players) = 0
    THEN [heap |-> hp, err |-> "IndexError"]
    ELSE [heap |->
             CASE ev.t = box_to_target      -> resolve_box_to_target(hp, s, ev)
               [] ev.t = object_to_platform -> resolve_object_to_platform(hp, s, ev)
               [] ev.t = player_to_box      -> resolve_player_to_box(hp, s, ev)
               [] ev.t = box_to_box         -> resolve_box_to_box(hp, s, ev)
               [] ev.t = object_to_border   -> resolve_object_to_border(hp, s, ev)
               [] OTHER                     -> hp,
          err |-> "none"]

\* the record of one resolved event, kept for the properties
LogEntry(hp, s, ev, after) ==
    [t |-> ev.t, a |-> ev.a, b |-> ev.b,
     side |-> IF ev.t \in {object_to_platform, player_to_box, box_to_box}
              THEN Side(hp, ev) ELSE "none",
     p0x |-> IF Len(ListsOf(hp, s).players) > 0
             THEN hp.objects[ListsOf(hp, s).players[1]].x ELSE 0,
     a0 |-> View(hp, ev.a), b0 |-> View(hp, ev.b),
     a1 |-> View(after, ev.a), b1 |-> View(after, ev.b),
     g0 |-> hp.spaces[s].player_on_ground,
     g1 |-> after.spaces[s].player_on_ground,
     noop |-> (after = hp),
     bystanders |-> \A o \in 1..Len(hp.objects) :
                        o \in {ev.a, ev.b} \/ speed(after, o) = speed(hp, o)]

\* Space.resolve_collisions: the events in order, stopping at an error
resolve_collisions(hp, s, collisions) ==
    LET One(acc, ev) ==
            IF acc.err # "none" THEN acc
            ELSE LET Record(r) ==
                         [heap |-> r.heap, err |-> r.err,
                          log |-> IF r.err = "none"
                                  THEN Append(acc.log, LogEntry(acc.heap, s, ev, r.heap))
                                  ELSE acc.log]
                 IN  With(resolve_one(acc.heap, s, ev), Record)
    IN  Fold(collisions, [heap |-> hp, err |-> "none", log |-> <<>>], One)

\* ------------------------------------------------------------- move_player
\* jump_speed = gravity * sqrt((jump_height / gravity) * 2), which is the
\* square root of 2 * jump_height * gravity; a whole number where the keys
\* up and down are drawn.
jump_speed(sp) ==
    LET jump_height == jump_height_units * sp.upscale
        n == 2 * jump_height * sp.gravity
        m == IF 2 * jump_height > sp.gravity THEN 2 * jump_height ELSE sp.gravity
    IN  VelUnit * (CHOOSE k \in 0..m : k * k = n)

\* a mutant of move_player: up takes effect whether or not the grounded flag
\* is set
move_player_ungated(hp, s, player, key) ==
    LET js == jump_speed(hp.spaces[s])
    IN  CASE key = "up" ->
                [SetSpeedItem(hp, player, 2, -js)
                    EXCEPT !.spaces[s].player_on_ground = FALSE]
          [] key = "down" ->
                SetSpeedItem(hp, player, 2, speed(hp, player)[2] + js)
          [] key = "right" ->
                SetRight(hp, player, rright(hp.objects[player]) + side_step)
          [] key = "left" ->
                SetLeft(hp, player, rleft(hp.objects[player]) - side_step)
          [] OTHER -> hp

\* a mutant of move_player: a step to the side clears the grounded flag
move_player_side_clears_flag(hp, s, player, key) ==
    LET js == jump_speed(hp.spaces[s])
    IN  CASE key = "up" ->
                IF hp.spaces[s].player_on_ground
                THEN [SetSpeedItem(hp, player, 2, -js)
                        EXCEPT !.spaces[s].player_on_ground = FALSE]
                ELSE hp
          [] key = "down" ->
                SetSpeedItem(hp, player, 2, speed(hp, player)[2] + js)
          [] key = "right" ->
                [SetRight(hp, player, rright(hp.objects[player]) + side_step)
                    EXCEPT !.spaces[s].player_on_ground = FALSE]
          [] key = "left" ->
                [SetLeft(hp, player, rleft(hp.objects[player]) - side_step)
                    EXCEPT !.spaces[s].player_on_ground = FALSE]
          [] OTHER -> hp

\* Space.move_player
move_player(hp, s, player, key) ==
    LET js == jump_speed(hp.spaces[s])
    IN  CASE key = "up" ->
                IF hp.spaces[s].player_on_ground
                THEN [SetSpeedItem(hp, player, 2, -js)
                        EXCEPT !.spaces[s].player_on_ground = FALSE]
                ELSE hp
          [] key = "down" ->
                SetSpeedItem(hp, player, 2, speed(hp, player)[2] + js)
          [] key = "right" ->
                SetRight(hp, player, rright(hp.objects[player]) + side_step)
          [] key = "left" ->
                SetLeft(hp, player, rleft(hp.objects[player]) - side_step)
          [] OTHER -> hp

\* ------------------------------------------------------------- step
\* a mutant of settle: the engaged-target counter is not reset in a round
settle_keep_counter(hp, s) ==
    LET n == Len(ListsOf(hp, s).boxes)
        Round_(acc, i) ==
            IF acc.err # "none" THEN acc
            ELSE LET Resolved(cc) ==
                         LET Record(rr) ==
                                 [heap |-> rr.heap, err |-> rr.err,
                                  log |-> acc.log \o rr.log,
                                  rounds |-> acc.rounds + 1, events |-> cc.events]
                         IN  IF cc.err # "none"
                             THEN [heap |-> cc.heap, err |-> cc.err, log |-> acc.log,
                                   rounds |-> acc.rounds, events |-> <<>>]
                             ELSE With(resolve_collisions(cc.heap, s, cc.events), Record)
                 IN  With(check_collisions(acc.heap, s), Resolved)
    IN  Fold([i \in 1..n |-> i],
             [heap |-> hp, err |-> "none", log |-> <<>>, rounds |-> 0,
              events |-> <<>>],
             Round_)

\* the settle loop: range(len(self.boxes)) rounds of reset counter, detect,
\* resolve; an error raised in a round ends the step there
settle(hp, s) ==
    LET n == Len(ListsOf(hp, s).boxes)
        Round_(acc, i) ==
            IF acc.err # "none" THEN acc
            ELSE LET h1 == [acc.heap EXCEPT !.spaces[s].targets_engaged = 0]
                     Resolved(cc) ==
                         LET Record(rr) ==
                                 [heap |-> rr.heap, err |-> rr.err,
                                  log |-> acc.log \o rr.log,
                                  rounds |-> acc.rounds + 1, events |-> cc.events]
                         IN  IF cc.err # "none"
                             THEN [heap |-> cc.heap, err |-> cc.err, log |-> acc.log,
                                   rounds |-> acc.rounds, events |-> <<>>]
                             ELSE With(resolve_collisions(cc.heap, s, cc.events), Record)
                 IN  With(check_collisions(h1, s), Resolved)
    IN  Fold([i \in 1..n |-> i],
             [heap |-> hp, err |-> "none", log |-> <<>>, rounds |-> 0,
              events |-> <<>>],
             Round_)

\* object.speed[1] += gravity / fps, once for every entry of dynamic_objects
apply_gravity(hp, s, dynamic_objects, fps) ==
    LET One(acc, object) ==
            SetSpeedItem(acc, object, 2,
                speed(acc, object)[2] + ExactDiv(hp.spaces[s].gravity * VelUnit, fps))
    IN  Fold(dynamic_objects, hp, One)

\* a mutant of move_objects: the new coordinates are rounded down
move_objects_floor(hp, dynamic_objects, fps) ==
    LET Floor(n, d) == IF d < 0 THEN (-n) \div (-d) ELSE n \div d
        One(acc, object) ==
            LET r == acc.objects[object]
                v == speed(acc, object)
            IN  [acc EXCEPT
                    !.objects[object].x = Floor(r.x * fps * VelUnit + v[1], fps * VelUnit),
                    !.objects[object].y = Floor(r.y * fps * VelUnit + v[2], fps * VelUnit)]
    IN  Fold(dynamic_objects, hp, One)

\* object.topleft = round(x + vx * (1 / fps)), round(y + vy * (1 / fps))
move_objects(hp, dynamic_objects, fps) ==
    LET One(acc, object) ==
            LET r == acc.objects[object]
                v == speed(acc, object)
            IN  [acc EXCEPT
                    !.objects[object].x = Round(r.x * fps * VelUnit + v[1], fps * VelUnit),
                    !.objects[object].y = Round(r.y * fps * VelUnit + v[2], fps * VelUnit)]
    IN  Fold(dynamic_objects, hp, One)

\* Space.step: the heap it leaves, the error it raised, and the heap as it
\* was after the settle loop
step(hp, s, fps) ==
    LET h0 == [hp EXCEPT !.spaces[s].player_in_thinkingbox = FALSE]
        After(st) ==
            LET dyn == ListsOf(st.heap, s).players \o ListsOf(st.heap, s).boxes
                res(heap, err) ==
                    [heap |-> heap, err |-> err, mid |-> st.heap, log |-> st.log,
                     rounds |-> st.rounds, events |-> st.events]
            IN  IF st.err # "none" THEN res(st.heap, st.err)
                ELSE IF fps = 0
                THEN IF Len(dyn) > 0 THEN res(st.heap, "ZeroDivisionError")
                                     ELSE res(st.heap, "none")
                ELSE res(move_objects(apply_gravity(st.heap, s, dyn, fps), dyn, fps),
                         "none")
    IN  With(settle(h0, s), After)

\* ------------------------------------------------------------- behaviour
\* the players and boxes of a space
Dynamic(hp, s) == Range(ListsOf(hp, s).players) \cup Range(ListsOf(hp, s).boxes)

\* the pairs (o, q) of a player or box o and a platform, box or player q of
\* the space that overlap with positive area
Overlaps(hp, s) ==
    { pr \in Dynamic(hp, s) \X (Dynamic(hp, s) \cup Range(ListsOf(hp, s).platforms)) :
        pr[1] # pr[2] /\ colliderect(hp.objects[pr[1]], hp.objects[pr[2]]) }

\* The record of a call: its arguments, the error it raised and what it
\* returned; for a step the resolved events, the rounds of the settle loop,
\* the events of its last detection, the overlaps its integration created
\* (fresh) and those the step before it had created (carried).  clean says
\* that no call so far raised an error and every step had a positive fps,
\* prior says the same of the calls before this one.
Call(op, s, clean) ==
    [op |-> op, space |-> s, clean |-> clean, prior |-> clean,
     err |-> "none", ret |-> None,
     type |-> "", key |-> "", player |-> None, fps |-> 1,
     log |-> <<>>, rounds |-> 0, events |-> <<>>,
     fresh |-> {}, carried |-> {}]

Install(hp) ==
    /\ objects' = hp.objects
    /\ Object_speed' = hp.Object_speed
    /\ Space_lists' = hp.Space_lists
    /\ spaces' = hp.spaces

\* the heap of a new process in which Space(a) was constructed as space 1
FreshHeap(a) ==
    [objects |-> <<>>, Object_speed |-> <<0, 0>>, Space_lists |-> EmptyLists,
     spaces |-> [s \in SpaceIds |-> IF s = 1 THEN NewSpace(a) ELSE NoSpace]]

\* the heap after the add_object calls of a level, made on space 1
Build(a, adds) ==
    LET One(acc, arg) == add_object(acc, 1, arg).heap
    IN  Fold(adds, FreshHeap(a), One)

Init ==
    /\ \E level \in Levels :
          \E hp \in {Build(level.space, level.adds)} :
              /\ objects = hp.objects
              /\ Object_speed = hp.Object_speed
              /\ Space_lists = hp.Space_lists
              /\ spaces = hp.spaces
              /\ pre = hp
              /\ mid = hp
    /\ last = Call("init", 1, TRUE)
    /\ calls = 0

\* Space(w, h, gravity, upscale)
Construct(s) ==
    /\ ~spaces[s].exists
    /\ calls < MaxCalls
    /\ \E a \in SpaceArgs :
          \E hp \in {[Heap EXCEPT !.spaces[s] = NewSpace(a)]} :
              /\ Install(hp)
              /\ mid' = hp
    /\ last' = Call("Space", s, last.clean)
    /\ pre' = Heap
    /\ calls' = calls + 1

\* space.add_object(x, y, w, h, type)
AddObject(s) ==
    /\ spaces[s].exists
    /\ calls < MaxCalls
    /\ \E a \in AddArgs :
          \E r \in {add_object(Heap, s, a)} :
              /\ Install(r.heap)
              /\ mid' = r.heap
              /\ last' = [Call("add_object", s, last.clean) EXCEPT
                             !.type = a.type, !.err = r.err, !.ret = r.ret]
    /\ pre' = Heap
    /\ calls' = calls + 1

\* space.move_player(player, key), for a player of the space
MovePlayer(s) ==
    /\ spaces[s].exists
    /\ calls < MaxCalls
    /\ \E player \in Range(ListsOf(Heap, s).players), key \in KeysOf(spaces[s]) :
          \E hp \in {move_player(Heap, s, player, key)} :
              /\ Install(hp)
              /\ mid' = hp
              /\ last' = [Call("move_player", s, last.clean) EXCEPT !.key = key, !.player = player]
    /\ pre' = Heap
    /\ calls' = calls + 1

\* space.step(fps)
Step(s) ==
    /\ spaces[s].exists
    /\ calls < MaxCalls
    /\ \E fps \in FpsOf(spaces[s]) :
          \E r \in {step(Heap, s, fps)} :
              /\ Install(r.heap)
              /\ mid' = r.mid
              /\ last' = [Call("step", s, last.clean /\ fps > 0 /\ r.err = "none") EXCEPT
                             !.prior = last.clean,
                             !.fps = fps, !.err = r.err, !.log = r.log,
                             !.rounds = r.rounds, !.events = r.events,
                             !.fresh = IF r.err = "none"
                                       THEN Overlaps(r.heap, s) \ Overlaps(r.mid, s)
                                       ELSE {},
                             !.carried = IF last.op = "step" /\ last.space = s
                                         THEN last.fresh ELSE {}]
    /\ pre' = Heap
    /\ calls' = calls + 1

\* space.check_collisions()
CheckCollisions(s) ==
    /\ spaces[s].exists
    /\ calls < MaxCalls
    /\ \E r \in {check_collisions(Heap, s)} :
          /\ Install(r.heap)
          /\ mid' = r.heap
          /\ last' = [Call("check_collisions", s, last.clean /\ r.err = "none") EXCEPT
                         !.prior = last.clean, !.err = r.err, !.events = r.events]
    /\ pre' = Heap
    /\ calls' = calls + 1

\* space.reset()
Reset(s) ==
    /\ spaces[s].exists
    /\ calls < MaxCalls
    /\ \E hp \in {reset(Heap, s)} :
          /\ Install(hp)
          /\ mid' = hp
    /\ last' = Call("reset", s, last.clean)
    /\ pre' = Heap
    /\ calls' = calls + 1

\* one Space instance
Next ==
    \/ AddObject(1)
    \/ MovePlayer(1)
    \/ CheckCollisions(1)
    \/ Step(1)
    \/ Reset(1)

Spec == Init /\ [][Next]_vars

\* two Space instances in one process
NextShared ==
    \E s \in SpaceIds :
        \/ Construct(s)
        \/ AddObject(s)
        \/ MovePlayer(s)
        \/ CheckCollisions(s)
        \/ Step(s)
        \/ Reset(s)

SpecShared == Init /\ [][NextShared]_vars

\* ------------------------------------------------------------- properties
\* the last call was a step that ran to its end, in a behaviour in which no
\* call raised an error and every step had a positive frame rate
Stepped == last.op = "step" /\ last.clean

InBounds(hp, s, o) ==
    /\ 0 <= rleft(hp.objects[o])
    /\ 0 <= rtop(hp.objects[o])
    /\ rright(hp.objects[o]) <= hp.spaces[s].w
    /\ rbottom(hp.objects[o]) <= hp.spaces[s].h

\* C1: after the settle loop of a step (at least one round of it), every
\* player and box lies inside the borders of the space.
C1_InsideBordersAfterSettle ==
    (Stepped /\ last.rounds >= 1) =>
        \A o \in Dynamic(mid, last.space) : InBounds(mid, last.space, o)

\* box b stands on platform p with velocity (0, 0)
AtRest(hp, b, p) ==
    /\ rbottom(hp.objects[b]) = rtop(hp.objects[p])
    /\ rleft(hp.objects[b]) < rright(hp.objects[p])
    /\ rright(hp.objects[b]) > rleft(hp.objects[p])
    /\ speed(hp, b) = <<0, 0>>

\* C2: a box at rest on a platform has the same position and velocity after
\* a step made with no move_player call before it (the first call of the
\* behaviour; by induction, after any number of steps).
C2_RestingBoxStaysPut ==
    (Stepped /\ calls = 1) =>
        \A b \in Range(ListsOf(pre, last.space).boxes),
           p \in Range(ListsOf(pre, last.space).platforms) :
            AtRest(pre, b, p) => View(Heap, b) = View(pre, b)

\* the items that took part in an event resolved by the last step
Touched == { last.log[i].a : i \in 1..Len(last.log) }
               \cup { last.log[i].b : i \in 1..Len(last.log) }

\* C3: a step adds gravity / fps, once, to the vertical velocity of every
\* player and box that took part in no contact of the tick.
C3_GravityOncePerTick ==
    Stepped =>
        \A o \in Dynamic(pre, last.space) \ Touched :
            speed(Heap, o)[2] =
                speed(pre, o)[2]
                    + ExactDiv(pre.spaces[last.space].gravity * VelUnit, last.fps)

\* the box-to-box events the last step resolved with a horizontal side
HorizontalBoxEvents ==
    { i \in 1..Len(last.log) :
        last.log[i].t = box_to_box /\ last.log[i].side \in {"left", "right"} }

\* the boxes of an event are flush on its side, both with horizontal velocity 0
FlushAndStopped(e) ==
    /\ e.a1.vx = 0
    /\ e.b1.vx = 0
    /\ e.side = "right" => e.a1.x + e.a1.w = e.b1.x
    /\ e.side = "left" => e.a1.x = e.b1.x + e.b1.w

Item1Dist(e) == Abs(e.p0x - e.a0.x)
Item2Dist(e) == Abs(e.p0x - e.b0.x)

\* C4 as amended: in a box-to-box event with a horizontal side, the box
\* nearer to players[0] (item1 when the distances are equal) keeps its
\* position and the farther box is snapped flush against it; both boxes end
\* with horizontal velocity 0.
C4_NearerBoxKeepsPosition ==
    last.op = "step" =>
        \A i \in HorizontalBoxEvents :
            LET e == last.log[i]
            IN  /\ FlushAndStopped(e)
                /\ IF Item1Dist(e) > Item2Dist(e)
                   THEN e.b1.x = e.b0.x /\ e.b1.y = e.b0.y
                   ELSE e.a1.x = e.a0.x /\ e.a1.y = e.a0.y

\* C4 as stated: the box farther from players[0] keeps its position and the
\* nearer box is snapped flush against it.
C4_FartherBoxKeepsPosition ==
    last.op = "step" =>
        \A i \in HorizontalBoxEvents :
            LET e == last.log[i]
            IN  /\ FlushAndStopped(e)
                /\ Item1Dist(e) > Item2Dist(e) => e.a1.x = e.a0.x /\ e.a1.y = e.a0.y
                /\ Item1Dist(e) < Item2Dist(e) => e.b1.x = e.b0.x /\ e.b1.y = e.b0.y

\* a step resolved a horizontal box-to-box event in which item1 was the
\* farther box and was moved
C4_Witness ==
    /\ Stepped
    /\ \E i \in HorizontalBoxEvents :
          LET e == last.log[i]
          IN  /\ Item1Dist(e) > Item2Dist(e)
              /\ e.a1.x # e.a0.x

\* a step resolved a horizontal box-to-box event in which item1 was the
\* nearer box and item2 was moved
C4_WitnessItem1Nearer ==
    /\ Stepped
    /\ \E i \in HorizontalBoxEvents :
          LET e == last.log[i]
          IN  /\ Item1Dist(e) < Item2Dist(e)
              /\ e.b1.x # e.b0.x

Min(a, b) == IF a < b THEN a ELSE b
Max(a, b) == IF a > b THEN a ELSE b

\* box b has been pushed sideways into platform p: one vertical edge of p is
\* strictly inside b, and they overlap vertically by the tolerance or more
PushedInto(hp, b, p) ==
    LET rb == hp.objects[b]
        rp == hp.objects[p]
    IN  /\ colliderect(rb, rp)
        /\ \/ rleft(rb) < rleft(rp) /\ rleft(rp) < rright(rb)
           \/ rleft(rb) < rright(rp) /\ rright(rp) < rright(rb)
        /\ Min(rbottom(rb), rbottom(rp)) - Max(rtop(rb), rtop(rp)) >= tolerance

\* C5: a box pushed sideways into a platform has horizontal velocity 0 and
\* its edge flush against the platform's after the settle loop of the next
\* step.
C5_BoxFlushAgainstPlatform ==
    Stepped =>
        \A b \in Range(ListsOf(pre, last.space).boxes),
           p \in Range(ListsOf(pre, last.space).platforms) :
            PushedInto(pre, b, p) =>
                /\ speed(mid, b)[1] = 0
                /\ \/ rright(mid.objects[b]) = rleft(mid.objects[p])
                   \/ rleft(mid.objects[b]) = rright(mid.objects[p])

\* C6: after the settle loop of a step, no overlap that the integration of
\* the step before it created is left.
C6_NoOverlapLeftAfterSettle ==
    Stepped => last.carried \cap Overlaps(mid, last.space) = {}

\* what a space holds: its collections, trigger zone, counter and flags
Registry(hp, s) ==
    [lists |-> ListsOf(hp, s),
     thinkingbox |-> hp.spaces[s].thinkingbox,
     targets_engaged |-> hp.spaces[s].targets_engaged,
     player_on_ground |-> hp.spaces[s].player_on_ground,
     player_in_thinkingbox |-> hp.spaces[s].player_in_thinkingbox]

\* C7: add_object with an unknown type fails with InvalidCategory, returns no
\* item and leaves the space as it was.
C7_UnknownTypeRejected ==
    (last.op = "add_object" /\ last.type \notin KnownTypes) =>
        /\ last.err = "InvalidCategory"
        /\ last.ret = None
        /\ Registry(Heap, last.space) = Registry(pre, last.space)

\* C8: step with fps <= 0 fails with InvalidFramerate and changes nothing.
C8_BadFramerateRejected ==
    (last.op = "step" /\ last.fps <= 0) =>
        /\ last.err = "InvalidFramerate"
        /\ Heap = pre

\* C9: after reset the collections of the space are empty, the trigger zone
\* is absent, the counter is 0, the flags are false, and width, height,
\* gravity and upscale are as before.
C9_ResetClears ==
    last.op = "reset" =>
        LET s == last.space
        IN  /\ ListsOf(Heap, s) = EmptyLists
            /\ spaces[s].thinkingbox = None
            /\ spaces[s].targets_engaged = 0
            /\ ~spaces[s].player_on_ground
            /\ ~spaces[s].player_in_thinkingbox
            /\ spaces[s].w = pre.spaces[s].w
            /\ spaces[s].h = pre.spaces[s].h
            /\ spaces[s].gravity = pre.spaces[s].gravity
            /\ spaces[s].upscale = pre.spaces[s].upscale

\* a reset of a space that held a player and a box, with the grounded flag set
C9_Witness ==
    /\ last.op = "reset"
    /\ last.clean
    /\ Len(ListsOf(pre, last.space).players) > 0
    /\ Len(ListsOf(pre, last.space).boxes) > 0
    /\ pre.spaces[last.space].player_on_ground

\* C10: a call on one space leaves the collections, trigger zone, counter
\* and flags of every other space as they were, and a new space starts with
\* empty collections.
C10_SpacesIndependent ==
    /\ last.op \in {"add_object", "move_player", "step"} =>
          \A s \in SpaceIds \ {last.space} :
              pre.spaces[s].exists => Registry(Heap, s) = Registry(pre, s)
    /\ last.op = "Space" => ListsOf(Heap, last.space) = EmptyLists

\* v is the negated jump speed of space sp: minus the square root of
\* 2 * jump height * gravity, the jump height being 7 upscaled
IsNegatedJumpSpeed(sp, v) ==
    /\ v < 0
    /\ v % VelUnit = 0
    /\ ((-v) \div VelUnit) * ((-v) \div VelUnit) = 2 * (7 * sp.upscale) * sp.gravity

\* C11: move_player(player, "up") with the grounded flag set makes the
\* player's vertical velocity the negated jump speed and clears the flag;
\* with the flag clear it changes nothing; and an up command that follows an
\* up command on the same space changes nothing.
C11_JumpOnlyWhenGrounded ==
    [][ (last'.op = "move_player" /\ last'.key = "up") =>
            /\ IF spaces[last'.space].player_on_ground
               THEN /\ IsNegatedJumpSpeed(spaces[last'.space],
                                          speed(Heap', last'.player)[2])
                    /\ ~spaces'[last'.space].player_on_ground
               ELSE Heap' = Heap
            /\ (last.op = "move_player" /\ last.key = "up"
                    /\ last.space = last'.space) => Heap' = Heap ]_vars

\* an up command given with the grounded flag set
C11_Witness ==
    /\ last.op = "move_player"
    /\ last.key = "up"
    /\ last.clean
    /\ pre.spaces[last.space].player_on_ground

\* an up command given in mid-jump: the flag is clear and the player rises
\* at the jump speed
C11_WitnessInJump ==
    /\ last.op = "move_player"
    /\ last.key = "up"
    /\ last.clean
    /\ ~pre.spaces[last.space].player_on_ground
    /\ IsNegatedJumpSpeed(spaces[last.space], speed(pre, last.player)[2])

\* the platforms, the targets and the trigger zone of a space
Static(hp, s) ==
    Range(ListsOf(hp, s).platforms) \cup Range(ListsOf(hp, s).targets)
        \cup (IF hp.spaces[s].thinkingbox = None THEN {}
              ELSE {hp.spaces[s].thinkingbox})

\* the 20x10 world of gravity 98 with a platform at (0, 9, 20, 1) and a
\* player at (5, 5, 1, 2), as built
ScenarioStart ==
    Build(ScenarioArgs, << Arg(0, 9, 20, 1, "platform"), Arg(5, 5, 1, 2, "player") >>)

\* C12: a step that runs to its end leaves every player and box at
\* round(position after the settle loop + velocity / fps) on each axis, the
\* velocity being the one it has once gravity was added, and with its size;
\* no step moves a platform, a target or the trigger zone.  In the 20x10
\* world one step(60) leaves the player with vertical velocity 98 * 100 / 60
\* and with y increased by round(velocity / 60), which is 3.
C12_EulerIntegration ==
    last.op = "step" =>
        /\ \A o \in Static(pre, last.space) : objects[o] = pre.objects[o]
        /\ \A o \in Dynamic(pre, last.space) :
              objects[o].w = pre.objects[o].w /\ objects[o].h = pre.objects[o].h
        /\ (last.err = "none" /\ last.fps # 0) =>
              \A o \in Dynamic(pre, last.space) :
                  /\ objects[o].x = Round(mid.objects[o].x * last.fps * VelUnit
                                            + speed(Heap, o)[1], last.fps * VelUnit)
                  /\ objects[o].y = Round(mid.objects[o].y * last.fps * VelUnit
                                            + speed(Heap, o)[2], last.fps * VelUnit)
        /\ (pre = ScenarioStart /\ last.fps = 60) =>
              LET player == ListsOf(pre, 1).players[1]
                  vy     == speed(Heap, player)[2]
              IN  /\ last.err = "none"
                  /\ vy * 60 = 98 * 100 * VelUnit
                  /\ objects[player].y - pre.objects[player].y = Round(vy, 60 * VelUnit)
                  /\ objects[player].y - pre.objects[player].y = 3
                  /\ objects[player].x = pre.objects[player].x

\* the first step(60) of the 20x10 world
C12_Witness ==
    /\ Stepped
    /\ pre = ScenarioStart
    /\ last.fps = 60

\* a step that moved a box sideways in its settle loop and then integrated it
C12_WitnessAfterSettle ==
    /\ Stepped
    /\ \E b \in Range(ListsOf(pre, last.space).boxes) :
          /\ mid.objects[b].x # pre.objects[b].x
          /\ objects[b].y # mid.objects[b].y

\* check_playerinthinking's test of a player against the trigger zone:
\* strictly inside sideways, top and bottom within 2 units of the zone's
InThinkingbox(hp, s, player) ==
    LET r == hp.objects[player]
        z == hp.objects[hp.spaces[s].thinkingbox]
    IN  /\ rleft(r) > rleft(z)
        /\ rright(r) < rright(z)
        /\ Abs(rbottom(r) - rbottom(z)) < 2
        /\ Abs(rtop(r) - rtop(z)) < 2

\* C13: in a space with a trigger zone and a player, a step of positive
\* frame rate raises no error and leaves the in-trigger-zone flag true if
\* and only if some player is in the zone at the detection of that tick
\* (the positions are those the step found: a step that raises no error in
\* such a space ran no round of the settle loop, so nothing had moved).
C13_TriggerZoneFlag ==
    ( /\ last.op = "step"
      /\ last.prior
      /\ last.fps > 0
      /\ pre.spaces[last.space].thinkingbox # None
      /\ Len(ListsOf(pre, last.space).players) > 0 ) =>
        /\ last.err = "none"
        /\ spaces[last.space].player_in_thinkingbox
              <=> \E player \in Range(ListsOf(pre, last.space).players) :
                      InThinkingbox(pre, last.space, player)

\* C13, the part the code keeps: a step never leaves the flag true from an
\* earlier tick (it is false after every step).
C13_FlagNeverSet ==
    last.op = "step" => ~spaces[last.space].player_in_thinkingbox

\* a step of a space without boxes whose player stands in the trigger zone
C13_PlayerInZoneNoBoxes ==
    /\ Stepped
    /\ pre.spaces[last.space].thinkingbox # None
    /\ Len(ListsOf(pre, last.space).boxes) = 0
    /\ \E player \in Range(ListsOf(pre, last.space).players) :
          InThinkingbox(pre, last.space, player)

\* a step of a space with a trigger zone, a player and a box raised TypeError
C13_DetectionRaises ==
    /\ last.op = "step"
    /\ last.prior
    /\ last.fps > 0
    /\ last.err = "TypeError"

\* the box-to-target events among the events of the last detection
TargetEvents(events) ==
    { i \in 1..Len(events) : events[i].t = box_to_target }

\* C14: after a step that raised no error the engaged-target counter is the
\* number of box-to-target events of the detection of its last settle round
\* (0 when the settle loop ran no round).
C14_EngagedCountsLastRound ==
    (last.op = "step" /\ last.err = "none") =>
        spaces[last.space].targets_engaged = Cardinality(TargetEvents(last.events))

\* a step of two settle rounds, each with one box over two targets, made
\* when the counter already was 2
C14_Witness ==
    /\ Stepped
    /\ last.rounds = 2
    /\ pre.spaces[last.space].targets_engaged = 2
    /\ Cardinality(TargetEvents(last.log)) = 4
    /\ Cardinality({ last.events[i].a : i \in TargetEvents(last.events) }) = 1
    /\ spaces[last.space].targets_engaged = 2

\* C15: a step of positive frame rate runs to its end (raises no error), and
\* its settle loop performs as many detect-then-resolve rounds as the space
\* had boxes when the step began.
C15_SettleRoundsEqualBoxes ==
    (last.op = "step" /\ last.prior /\ last.fps > 0) =>
        /\ last.err = "none"
        /\ last.rounds = Len(ListsOf(pre, last.space).boxes)

\* C15, for the steps that raise no error: the rounds are as many as the boxes
C15_RoundsWhenNoError ==
    (last.op = "step" /\ last.err = "none") =>
        last.rounds = Len(ListsOf(pre, last.space).boxes)

\* the sides in their order of priority, and the distance of the two edges
\* that meet on each, for an event (a, b) as its resolution found the items
SideOrder == << "top", "bottom", "right", "left" >>

EdgeDistance(a, b, side) ==
    CASE side = "top"    -> Abs(a.y - (b.y + b.h))
      [] side = "bottom" -> Abs((a.y + a.h) - b.y)
      [] side = "right"  -> Abs((a.x + a.w) - b.x)
      [] side = "left"   -> Abs(a.x - (b.x + b.w))

FirstSide(a, b) ==
    LET within == { i \in 1..4 : EdgeDistance(a, b, SideOrder[i]) < 31 }
    IN  IF within = {} THEN "none"
        ELSE SideOrder[CHOOSE i \in within : \A j \in within : i <= j]

\* the events the last step resolved by their contact side
SidedEvents ==
    { i \in 1..Len(last.log) :
        last.log[i].t \in {object_to_platform, player_to_box, box_to_box} }

\* C16: the contact side of an object-to-platform, player-to-box or
\* box-to-box event is the first of top, bottom, right, left whose edge
\* distance is below 31, whatever the other distances; when there is none,
\* the resolution of the event changes nothing at all.
C16_SidePriority ==
    last.op = "step" =>
        \A i \in SidedEvents :
            LET e == last.log[i]
            IN  /\ e.side = FirstSide(e.a0, e.b0)
                /\ e.side = "none" => e.noop

\* a step resolved an event by its top side although the bottom edges were
\* nearer
C16_Witness ==
    /\ Stepped
    /\ \E i \in SidedEvents :
          LET e == last.log[i]
          IN  /\ e.side = "top"
              /\ EdgeDistance(e.a0, e.b0, "bottom") < EdgeDistance(e.a0, e.b0, "top")

\* a step resolved an overlap of two items that had no side within the
\* tolerance
C16_WitnessNoSide ==
    /\ Stepped
    /\ \E i \in SidedEvents : last.log[i].side = "none"

\* the object-to-platform events the last step resolved on a side
PlatformEvents(side) ==
    { i \in 1..Len(last.log) :
        last.log[i].t = object_to_platform /\ last.log[i].side = side }

\* what C17 says of a landing but for the grounded flag, and of a top contact
LandsAndBounces ==
    /\ \A i \in PlatformEvents("bottom") :
          LET e == last.log[i]
          IN  /\ e.a1.vx = 0 /\ e.a1.vy = 0
              /\ e.a1.y + e.a1.h = e.b0.y
              /\ e.b1 = e.b0
    /\ \A i \in PlatformEvents("top") :
          LET e == last.log[i]
          IN  /\ e.a1.vy = -e.a0.vy
              /\ e.a1.vx = e.a0.vx
              /\ e.a1.y = e.b0.y + e.b0.h
              /\ e.b1 = e.b0

\* C17: an object-to-platform event with bottom contact leaves the entity
\* with velocity (0, 0) and its bottom on the platform's top, leaves the
\* platform as it was, and sets the grounded flag when the entity is a
\* player and leaves the flag as it was when it is a box; with top contact
\* the vertical velocity is negated, the horizontal one kept, and the
\* entity's top is on the platform's bottom (for the steps of behaviours
\* without errors and with positive frame rates).
C17_PlatformLanding ==
    Stepped =>
        /\ LandsAndBounces
        /\ \A i \in PlatformEvents("bottom") :
              LET e == last.log[i]
              IN  IF e.a \in Range(ListsOf(pre, last.space).players)
                  THEN e.g1
                  ELSE e.g1 = e.g0

\* C17 without the claim that the landing of a box leaves the flag
C17_LandingButBoxFlag ==
    last.op = "step" =>
        /\ LandsAndBounces
        /\ \A i \in PlatformEvents("bottom") :
              last.log[i].a \in Range(ListsOf(pre, last.space).players)
                  => last.log[i].g1

\* a step in which the landing of a box set the grounded flag
C17_BoxSetsFlag ==
    /\ Stepped
    /\ \E i \in PlatformEvents("bottom") :
          /\ last.log[i].a \in Range(ListsOf(pre, last.space).boxes)
          /\ ~last.log[i].g0
          /\ last.log[i].g1

\* a step in which a player or box hit the underside of a platform
C17_TopContact ==
    /\ Stepped
    /\ PlatformEvents("top") # {}

\* the player-to-box events the last step resolved on a horizontal side
HorizontalPushEvents ==
    { i \in 1..Len(last.log) :
        last.log[i].t = player_to_box /\ last.log[i].side \in {"left", "right"} }

\* C18: a player-to-box event with a horizontal side leaves the box with
\* horizontal velocity 0 and the vertical velocity it had, flush against the
\* player's side of contact, and leaves the player's position, size and
\* velocity as they were.
C18_PushKeepsFall ==
    last.op = "step" =>
        \A i \in HorizontalPushEvents :
            LET e == last.log[i]
            IN  /\ e.b1.vx = 0
                /\ e.b1.vy = e.b0.vy
                /\ e.side = "left" => e.b1.x + e.b1.w = e.a0.x
                /\ e.side = "right" => e.b1.x = e.a0.x + e.a0.w
                /\ e.a1 = e.a0

\* a step in which a player pushed a falling box to the right
C18_Witness ==
    /\ Stepped
    /\ \E i \in HorizontalPushEvents :
          /\ last.log[i].side = "right"
          /\ last.log[i].b0.vy # 0
          /\ last.log[i].b1.x # last.log[i].b0.x

\* a step in which a player pushed a box to the left
C18_WitnessLeft ==
    /\ Stepped
    /\ \E i \in HorizontalPushEvents :
          /\ last.log[i].side = "left"
          /\ last.log[i].b1.x # last.log[i].b0.x

\* the index pairs i < j of a list whose items overlap
OverlappingPairs(hp, itemlist) ==
    { pr \in (1..Len(itemlist)) \X (1..Len(itemlist)) :
        /\ pr[1] < pr[2]
        /\ colliderect(hp.objects[itemlist[pr[1]]], hp.objects[itemlist[pr[2]]]) }

\* the events of one type are one for each overlapping pair of the list, on
\* two different items
OnePerPair(hp, events, itemlist, ct) ==
    LET of_type == { k \in 1..Len(events) : events[k].t = ct }
    IN  /\ \A pr \in OverlappingPairs(hp, itemlist) :
              Cardinality({ k \in of_type :
                  {events[k].a, events[k].b} = {itemlist[pr[1]], itemlist[pr[2]]} }) = 1
        /\ \A k \in of_type :
              /\ events[k].a # events[k].b
              /\ \E pr \in OverlappingPairs(hp, itemlist) :
                    {events[k].a, events[k].b} = {itemlist[pr[1]], itemlist[pr[2]]}

\* C19: check_collisions leaves every Object (position, size, velocity) and
\* the shared velocity list as they were, with or without a trigger zone;
\* when it returns, its list holds one box-to-box event for each overlapping
\* pair of different boxes and one player-to-player event for each
\* overlapping pair of different players, and every event of a box comes
\* before every event of a player.
C19_DetectionOnly ==
    last.op = "check_collisions" =>
        /\ objects = pre.objects
        /\ Object_speed = pre.Object_speed
        /\ last.err = "none" =>
              LET L == ListsOf(pre, last.space)
                  ev == last.events
              IN  /\ OnePerPair(pre, ev, L.boxes, box_to_box)
                  /\ OnePerPair(pre, ev, L.players, player_to_player)
                  /\ \A k1, k2 \in 1..Len(ev) :
                        (ev[k1].a \in Range(L.boxes) /\ ev[k2].a \in Range(L.players))
                            => k1 < k2

\* a detection that found three overlapping pairs of boxes and an
\* overlapping pair of players
C19_Witness ==
    /\ last.op = "check_collisions"
    /\ last.clean
    /\ Cardinality(OverlappingPairs(pre, ListsOf(pre, last.space).boxes)) = 3
    /\ Cardinality(OverlappingPairs(pre, ListsOf(pre, last.space).players)) = 1
    /\ Len(last.events) >= 4

\* a detection in a space with a trigger zone and a player: it raises
C19_WitnessTriggerZone ==
    /\ last.op = "check_collisions"
    /\ last.prior
    /\ pre.spaces[last.space].thinkingbox # None
    /\ last.err = "TypeError"

\* C20: move_player with left or right adds -30 or +30 to the x of the given
\* player and changes nothing else of the program state: no other
\* coordinate, no velocity, no other entity, no flag, no collection.
C20_SideStepOnly ==
    (last.op = "move_player" /\ last.key \in {"left", "right"}) =>
        Heap = [pre EXCEPT !.objects[last.player].x =
                               IF last.key = "left" THEN @ - 30 ELSE @ + 30]

\* a step to the right made with the grounded flag set
C20_Witness ==
    /\ last.op = "move_player"
    /\ last.key = "right"
    /\ last.clean
    /\ pre.spaces[last.space].player_on_ground

\* a step to the left made with the grounded flag clear, by a falling player
C20_WitnessInAir ==
    /\ last.op = "move_player"
    /\ last.key = "left"
    /\ last.clean
    /\ ~pre.spaces[last.space].player_on_ground
    /\ speed(pre, last.player)[2] # 0

\* the events of a platform, box or border contact the last step resolved
ContactEvents ==
    { i \in 1..Len(last.log) :
        last.log[i].t \in {object_to_platform, player_to_box, box_to_box,
                           object_to_border} }

\* C21: velocities are per entity.  move_player with up or down leaves the
\* velocity of every entity but the given player as it was, and the
\* resolution of a platform, box or border contact leaves the velocity of
\* every entity that takes no part in the event as it was.
C21_VelocityPerEntity ==
    /\ (last.op = "move_player" /\ last.clean /\ last.key \in {"up", "down"}) =>
          \A o \in 1..Len(objects) :
              o = last.player \/ speed(Heap, o) = speed(pre, o)
    /\ Stepped => \A i \in ContactEvents : last.log[i].bystanders

\* C21, the move_player part alone
C21_MovePlayerPart ==
    (last.op = "move_player" /\ last.clean /\ last.key \in {"up", "down"}) =>
        \A o \in 1..Len(objects) :
            o = last.player \/ speed(Heap, o) = speed(pre, o)

\* C21, the contact part alone
C21_ContactPart ==
    Stepped => \A i \in ContactEvents : last.log[i].bystanders

\* C22: the entity returned by add_object has velocity (0, 0), whatever calls
\* came before (for the five known types, in behaviours without errors).
C22_NewEntityAtRest ==
    (last.op = "add_object" /\ last.clean /\ last.type \in KnownTypes) =>
        /\ last.ret # None
        /\ speed(Heap, last.ret) = <<0, 0>>

\* an add_object made after a step had applied gravity
C22_AddAfterStep ==
    /\ last.op = "add_object"
    /\ last.clean
    /\ last.type \in KnownTypes
    /\ pre.Object_speed # <<0, 0>>

\* player p stands on the top of a platform or box q: they overlap
\* sideways, p's top is above q's top and p's bottom is on q's top or below
\* it (a player at rest sinks by the fall of one tick into its support
\* before the next settle loop lifts it, so any depth counts as standing)
Supported(hp, s, p) ==
    \E q \in (Range(ListsOf(hp, s).platforms) \cup Range(ListsOf(hp, s).boxes)) \ {p} :
        /\ rleft(hp.objects[p]) < rright(hp.objects[q])
        /\ rright(hp.objects[p]) > rleft(hp.objects[q])
        /\ rtop(hp.objects[p]) < rtop(hp.objects[q])
        /\ rbottom(hp.objects[p]) >= rtop(hp.objects[q])

\* the settle loop of the last step landed a player on a platform or a box
LandedThisTick ==
    \E i \in 1..Len(last.log) :
        /\ last.log[i].t \in {object_to_platform, player_to_box}
        /\ last.log[i].side = "bottom"
        /\ last.log[i].a \in Range(ListsOf(pre, last.space).players)

\* C23: after a step, when the grounded flag is set, the settle loop of the
\* step landed a player or some player stands on a platform or a box.
C23_GroundedMeansSupported ==
    (Stepped /\ spaces[last.space].player_on_ground) =>
        \/ LandedThisTick
        \/ \E p \in Range(ListsOf(Heap, last.space).players) :
              Supported(Heap, last.space, p)

\* C23, its second wording: an up command takes effect only for a player
\* that stands on a platform or a box.
C23_NoJumpInMidAir ==
    ( /\ last.op = "move_player"
      /\ last.clean
      /\ last.key = "up"
      /\ Heap # pre ) => Supported(pre, last.space, last.player)

====
